---- MODULE Spec2Model ----
(***************************************************************************)
(* State-machine model of the Electron BLE central session manager:        *)
(* DeviceManager (electron/src/device-manager.ts) on top of the noble      *)
(* radio driver.  Every public method of DeviceManager, every driver event *)
(* it listens to and every timer callback it registers is one action.      *)
(* The driver is an external collaborator: what it answers, and when, is   *)
(* chosen nondeterministically.  The facade BluetoothLe, which the         *)
(* application calls, keeps its own map of the devices it was told about.  *)
(***************************************************************************)
EXTENDS Integers, Sequences, FiniteSets, Bags, TLC

VARIABLES
    inited,                  \* init() has registered the driver listeners (lines 51-53)
    scanning,                \* DeviceManager.scanning
    discoveredDevices,       \* DeviceManager.discoveredDevices: id -> Undefined | entry
    allowDuplicates,         \* DeviceManager.allowDuplicates
    deviceNameFilter,        \* DeviceManager.deviceNameFilter
    deviceNamePrefixFilter,  \* DeviceManager.deviceNamePrefixFilter
    timers,                  \* bag of pending setTimeout callbacks
    scanReqs,                \* driver: scan requests handed over, not yet reported by an event
    driverScanning,          \* driver: the radio is scanning
    periph,                  \* driver: peripheral.state per id
    discListeners,           \* driver: number of 'disconnect' listeners on the peripheral
    dataListeners,           \* driver: number of 'data' listeners per characteristic
    subscribed,              \* driver: characteristics with notifications switched on
    awaitConn,               \* connect() calls suspended at `await connectAsync()`
    awaitDisc,               \* connect() calls suspended at `await discoverAll...Async()`
    nobleState,              \* driver: noble.state, the adapter's state
    callbackCalled,          \* init(): callbackCalled, the promise of init() is settled
    stateReceiver,           \* DeviceManager.stateReceiver is set
    lastEnabled,             \* the `enabled` the state receiver was last called with
    scanResultListener,      \* facade: its 'scanResult' listener on the DeviceManager
    deviceMap,               \* BluetoothLe.deviceMap: id -> the copy taken at a scan result
    requestOpen,             \* facade: the 'scanResult' listener holds the resolve of an open requestDevice promise
    requestsLost,            \* facade: open requestDevice promises whose listener was removed
    channelListeners,        \* facade: its listeners on the manager's `disconnected|id` channel
    periphServices,          \* driver: peripheral.services per id
    awaitRssi,               \* readRssi() calls suspended at `await updateRssiAsync()`
    admitted,                \* history: 'scanResult' emissions per id since the registry was last reset
    notifPhase,              \* history: progress of start/stop/start calls per characteristic
    last                     \* the step just taken: operation, result, driver calls, emissions

vars == <<inited, scanning, discoveredDevices, allowDuplicates, deviceNameFilter,
          deviceNamePrefixFilter, timers, scanReqs, driverScanning, periph,
          discListeners, dataListeners, subscribed, awaitConn, awaitDisc,
          nobleState, callbackCalled, stateReceiver, lastEnabled, scanResultListener,
          deviceMap, requestOpen, requestsLost, channelListeners,
          periphServices, awaitRssi, admitted, notifPhase, last>>

managerVars == <<scanning, discoveredDevices, allowDuplicates, deviceNameFilter,
                 deviceNamePrefixFilter>>
scanDriverVars == <<scanReqs, driverScanning>>
connVars == <<periph, discListeners, awaitConn, awaitDisc>>
gattVars == <<dataListeners, subscribed>>
adapterVars == <<nobleState, callbackCalled, stateReceiver, lastEnabled>>
requestVars == <<scanResultListener, deviceMap, requestOpen, requestsLost>>
facadeVars == <<scanResultListener, deviceMap, requestOpen, requestsLost, channelListeners>>
peripheralVars == <<periphServices, awaitRssi>>

----------------------------------------------------------------------------
(* Bounds of the model *)

MaxPending == 1
MaxTimers == 1
MaxCalls == 1
MaxAdmit == 2
MaxListeners == 2
MaxConnects == 2
MaxLost == 1
MaxStops == 2

(* Program constants *)

connectionTimeout == 10
requestDeviceDuration == 30

----------------------------------------------------------------------------
(* Values *)

\* The peripherals there are, those in range in every scenario, and those the
\* application connects to and operates on.
Ids == {1, 2, 3}
NearIds == {1, 2}
ConnIds == {1}

\* An optional value (undefined | v) is a sequence of at most one element.
None == <<>>
Some(v) == <<v>>
IsNull(o) == o = None
Val(o) == o[1]

\* Advertised names and filter strings are sequences of characters.
Foo == <<"F", "o", "o">>
FooBar == <<"F", "o", "o", "B", "a", "r">>
Bar == <<"B", "a", "r">>

LocalNames == {None, Some(FooBar), Some(Bar), Some(Foo)}
ScanDuration == 5
ScanDurations == {None, Some(ScanDuration)}

\* The filters a scan is started with: name, namePrefix, allowDuplicates.
ScanFilter(name, namePrefix, dup) == [name |-> name, namePrefix |-> namePrefix, allowDuplicates |-> dup]
ScanFilters == {ScanFilter(None, None, FALSE), ScanFilter(None, None, TRUE),
                ScanFilter(Some(FooBar), None, FALSE), ScanFilter(None, Some(Foo), FALSE),
                ScanFilter(Some(FooBar), Some(Foo), FALSE)}

Services == {"s1"}
Characteristics == {"c1", "c2"}
CharKeys == ConnIds \X Services \X Characteristics

\* What discoverAllServicesAndCharacteristicsAsync can answer.
TreeEmpty == [services |-> <<>>, characteristics |-> <<>>]
TreeFull == [services |-> <<[uuid |-> "s1", characteristics |-> <<"c1">>]>>,
             characteristics |-> <<"c1">>]
Trees == {TreeEmpty, TreeFull}

\* Error messages
DeviceNotFound == "Device not found."
NotConnected == "Device not connected."
NoCharacteristic == "Device does not have any characteristic."
ServiceNotFound == "Service not found."
CharacteristicNotFound == "Characteristic not found."
AlreadyScanning == "Already scanning. Stopping now."
ConnectionTimeout == "Connection timeout."
TypeError == "TypeError"
DriverError == "driver error"
PoweredOff == "BLE powered off"
PermissionDenied == "BLE permission denied"
Unsupported == "BLE unsupported"
FacadeDeviceNotFound == "Device not found. Call 'requestDevice', 'requestLEScan' or 'getDevices' first."
FacadeNotConnected == "Not connected to device."

\* noble.state
AdapterStates == {"poweredOn", "poweredOff", "unauthorized", "unsupported", "unknown"}

\* The record of one step: the operation, the peripheral it names (0: none), what
\* the caller's promise or call got (res), the exception that escaped a callback
\* (uncaught), the driver calls made and the number of events emitted.
Step(op, id, res, uncaught, drv, emits) ==
    [op |-> op, id |-> id, res |-> res, uncaught |-> uncaught, drv |-> drv, emits |-> emits]

StopTimer(d) == [kind |-> "stopScan", id |-> 0, ms |-> d * 1000]
ConnectTimer(id) == [kind |-> "connectTimeout", id |-> id, ms |-> connectionTimeout * 1000]

Has(id) == id \in DOMAIN discoveredDevices

----------------------------------------------------------------------------
(* Advertisement filter *)

\* String.prototype.startsWith
StartsWith(str, prefix) ==
    /\ Len(prefix) <= Len(str)
    /\ SubSeq(str, 1, Len(prefix)) = prefix

\* passesNameFilter as it would be if a missing name were let through.
passesNameFilter_MissingPasses(name) ==
    IF IsNull(deviceNameFilter) THEN TRUE
    ELSE IsNull(name) \/ name = deviceNameFilter

\* passesNameFilter(name): name === this.deviceNameFilter (undefined never equals a string)
passesNameFilter(name) ==
    IF IsNull(deviceNameFilter) THEN TRUE
    ELSE name = deviceNameFilter

\* passesNamePrefixFilter(name): "throws" when name is undefined and a prefix is set
\* (name.startsWith on undefined), else the boolean as a string.
passesNamePrefixFilter(name) ==
    IF IsNull(deviceNamePrefixFilter) THEN "true"
    ELSE IF IsNull(name) THEN "throws"
    ELSE IF StartsWith(Val(name), Val(deviceNamePrefixFilter)) THEN "true" ELSE "false"

\* discoverOutcome without the duplicate check of lines 240-243.
discoverOutcome_NoDedup(id, name) ==
    IF periph[id] = "connected" THEN "ignored"
    ELSE IF ~passesNameFilter(name) THEN "filtered"
    ELSE IF passesNamePrefixFilter(name) = "throws" THEN "throws"
    ELSE IF passesNamePrefixFilter(name) = "false" THEN "filtered"
    ELSE "admitted"

\* discoverOutcome without the connected check of lines 235-237.
discoverOutcome_NoConnectedCheck(id, name) ==
    IF ~allowDuplicates /\ Has(id) THEN "duplicate"
    ELSE IF ~passesNameFilter(name) THEN "filtered"
    ELSE IF passesNamePrefixFilter(name) = "throws" THEN "throws"
    ELSE IF passesNamePrefixFilter(name) = "false" THEN "filtered"
    ELSE "admitted"

\* The outcome of onDiscoverPeripheral for a peripheral id advertising name:
\* "ignored" (connected), "duplicate", "filtered", "throws" or "admitted".
discoverOutcome(id, name) ==
    IF periph[id] = "connected" THEN "ignored"
    ELSE IF ~allowDuplicates /\ Has(id) THEN "duplicate"
    ELSE IF ~passesNameFilter(name) THEN "filtered"
    ELSE IF passesNamePrefixFilter(name) = "throws" THEN "throws"
    ELSE IF passesNamePrefixFilter(name) = "false" THEN "filtered"
    ELSE "admitted"

----------------------------------------------------------------------------
(* Characteristic lookup *)

Throw(e) == [throws |-> TRUE, error |-> e, found |-> FALSE]
Return(found) == [throws |-> FALSE, error |-> "", found |-> found]

\* Array.prototype.find on the services of a tree: the first service with the uuid.
FindService(tree, service) ==
    LET hits == {i \in 1..Len(tree.services) : tree.services[i].uuid = service}
    IN IF hits = {} THEN None
       ELSE Some(tree.services[CHOOSE i \in hits : \A j \in hits : i <= j])

HasCharacteristic(serviceObj, characteristic) ==
    \E i \in 1..Len(serviceObj.characteristics) : serviceObj.characteristics[i] = characteristic

\* Lines 217-220: the guard `if (device)` throws when the device IS in the registry.
deviceGuardThrows(id) == Has(id)

\* Lines 221-231, run with whatever device the guard lets through.
resolveCharacteristic(id, service, characteristic) ==
    IF ~Has(id) THEN Throw(TypeError)                 \* device.peripheral on undefined
    ELSE IF periph[id] # "connected" THEN Throw(NotConnected)
    ELSE LET sac == discoveredDevices[id].servicesAndCharacteristics IN
         IF IsNull(sac) \/ Len(Val(sac).characteristics) = 0 THEN Throw(NoCharacteristic)
         ELSE LET serviceObj == FindService(Val(sac), service) IN
              IF IsNull(serviceObj) THEN Throw(ServiceNotFound)
              ELSE Return(HasCharacteristic(Val(serviceObj), characteristic))

getCharacteristic(id, service, characteristic) ==
    IF deviceGuardThrows(id) THEN Throw(DeviceNotFound)
    ELSE resolveCharacteristic(id, service, characteristic)

\* The characteristic is one a caller may operate on: the peripheral is in the
\* registry, connected, and its discovered tree holds service and characteristic.
InTree(id, service, characteristic) ==
    /\ Has(id)
    /\ ~IsNull(discoveredDevices[id].servicesAndCharacteristics)
    /\ LET serviceObj == FindService(Val(discoveredDevices[id].servicesAndCharacteristics), service)
       IN ~IsNull(serviceObj) /\ HasCharacteristic(Val(serviceObj), characteristic)

Operable(id, service, characteristic) ==
    periph[id] = "connected" /\ InTree(id, service, characteristic)

----------------------------------------------------------------------------
(* Initial state: a DeviceManager just constructed, the driver idle *)

Init ==
    /\ inited = FALSE
    /\ scanning = FALSE
    /\ discoveredDevices = <<>>
    /\ allowDuplicates = FALSE
    /\ deviceNameFilter = None
    /\ deviceNamePrefixFilter = None
    /\ timers = EmptyBag
    /\ scanReqs = <<>>
    /\ driverScanning = FALSE
    /\ periph = [id \in Ids |-> "disconnected"]
    /\ discListeners = [id \in Ids |-> 0]
    /\ dataListeners = [k \in CharKeys |-> 0]
    /\ subscribed = {}
    /\ awaitConn = [id \in Ids |-> 0]
    /\ awaitDisc = [id \in Ids |-> 0]
    /\ nobleState = "poweredOn"
    /\ callbackCalled = FALSE
    /\ stateReceiver = FALSE
    /\ lastEnabled = None
    /\ scanResultListener = "none"
    /\ deviceMap = <<>>
    /\ requestOpen = FALSE
    /\ requestsLost = 0
    /\ channelListeners = [id \in Ids |-> 0]
    /\ periphServices = [id \in Ids |-> None]
    /\ awaitRssi = [id \in Ids |-> 0]
    /\ admitted = [id \in Ids |-> 0]
    /\ notifPhase = [k \in CharKeys |-> 0]
    /\ last = Step("new", 0, "none", "", {}, 0)

----------------------------------------------------------------------------
(* DeviceManager: scanning *)

\* init(), lines 47-58: registers the scanStart, scanStop, discover and
\* stateChange listeners; its promise resolves at once when the adapter is on.
init ==
    /\ ~inited
    /\ inited' = TRUE
    /\ callbackCalled' = (nobleState = "poweredOn")
    /\ last' = Step("init", 0, IF nobleState = "poweredOn" THEN "ok" ELSE "pending", "", {}, 0)
    /\ UNCHANGED <<managerVars, timers, scanDriverVars, connVars, gattVars, nobleState,
                   stateReceiver, lastEnabled, facadeVars, peripheralVars, admitted, notifPhase>>

\* startScanning as it would be if it kept the registry of the earlier session.
startScanning_NoReset(name, namePrefix, dup, scanDuration) ==
    /\ Len(scanReqs) < MaxPending
    /\ IF scanning
       THEN /\ scanReqs' = Append(scanReqs, "stop")
            /\ last' = Step("startScanning", 0, AlreadyScanning, "", {"stopScanning"}, 0)
            /\ UNCHANGED <<allowDuplicates, deviceNameFilter, deviceNamePrefixFilter, timers>>
       ELSE /\ IsNull(scanDuration) \/ BagCardinality(timers) < MaxTimers
            /\ allowDuplicates' = dup
            /\ deviceNameFilter' = name
            /\ deviceNamePrefixFilter' = namePrefix
            /\ timers' = IF IsNull(scanDuration) THEN timers
                         ELSE timers (+) SetToBag({StopTimer(Val(scanDuration))})
            /\ scanReqs' = Append(scanReqs, "start")
            /\ last' = Step("startScanning", 0, "pending", "", {"startScanningAsync"}, 0)
    /\ UNCHANGED <<inited, adapterVars, peripheralVars, scanning, discoveredDevices,
                   driverScanning, connVars, gattVars, admitted, notifPhase>>

\* startScanning(serviceUUIDs, name, namePrefix, allowDuplicates, scanDuration)
startScanning(name, namePrefix, dup, scanDuration) ==
    /\ Len(scanReqs) < MaxPending
    /\ IF scanning
       THEN /\ scanReqs' = Append(scanReqs, "stop")
            /\ last' = Step("startScanning", 0, AlreadyScanning, "", {"stopScanning"}, 0)
            /\ UNCHANGED <<discoveredDevices, allowDuplicates, deviceNameFilter,
                           deviceNamePrefixFilter, timers, admitted, notifPhase>>
       ELSE /\ IsNull(scanDuration) \/ BagCardinality(timers) < MaxTimers
            /\ discoveredDevices' = <<>>
            /\ allowDuplicates' = dup
            /\ deviceNameFilter' = name
            /\ deviceNamePrefixFilter' = namePrefix
            /\ timers' = IF IsNull(scanDuration) THEN timers
                         ELSE timers (+) SetToBag({StopTimer(Val(scanDuration))})
            /\ scanReqs' = Append(scanReqs, "start")
            /\ admitted' = [id \in Ids |-> 0]
            /\ notifPhase' = [k \in CharKeys |-> 0]
            /\ last' = Step("startScanning", 0, "pending", "", {"startScanningAsync"}, 0)
    /\ UNCHANGED <<inited, adapterVars, peripheralVars, scanning, driverScanning, connVars,
                   gattVars>>

\* stopScan as it would be if it cleared the scanning flag itself.
stopScan_ClearsFlag ==
    /\ scanReqs' = Append(scanReqs, "stop")
    /\ scanning' = FALSE
    /\ last' = Step("stopScan", 0, "ok", "", {"stopScanning"}, 0)
    /\ UNCHANGED <<inited, adapterVars, facadeVars, peripheralVars, discoveredDevices,
                   allowDuplicates, deviceNameFilter, deviceNamePrefixFilter, timers,
                   driverScanning, connVars, gattVars, admitted, notifPhase>>

\* stopScan as it would be if it refused to run when no scan is in progress.
stopScan_OnlyWhileScanning ==
    /\ scanReqs' = IF scanning THEN Append(scanReqs, "stop") ELSE scanReqs
    /\ last' = IF scanning THEN Step("stopScan", 0, "ok", "", {"stopScanning"}, 0)
               ELSE Step("stopScan", 0, "Not scanning.", "", {}, 0)
    /\ UNCHANGED <<inited, adapterVars, facadeVars, peripheralVars, managerVars, timers,
                   driverScanning, connVars, gattVars, admitted, notifPhase>>

\* stopScan(), lines 124-126
stopScan ==
    /\ scanReqs' = Append(scanReqs, "stop")
    /\ last' = Step("stopScan", 0, "ok", "", {"stopScanning"}, 0)
    /\ UNCHANGED <<inited, adapterVars, facadeVars, peripheralVars, managerVars, timers, driverScanning, connVars, gattVars,
                   admitted, notifPhase>>

\* The timer callback as it would be if it asked the driver nothing.
stopScanTimer_NoStop(d) ==
    /\ BagIn(StopTimer(d), timers)
    /\ timers' = timers (-) SetToBag({StopTimer(d)})
    /\ last' = Step("stopScanTimer", 0, "none", "", {}, 0)
    /\ UNCHANGED <<inited, adapterVars, facadeVars, peripheralVars, managerVars, scanDriverVars,
                   connVars, gattVars, admitted, notifPhase>>

\* The callback of line 119: () => this.stopScan()
stopScanTimer(d) ==
    /\ BagIn(StopTimer(d), timers)
    /\ Len(scanReqs) < MaxPending
    /\ timers' = timers (-) SetToBag({StopTimer(d)})
    /\ scanReqs' = Append(scanReqs, "stop")
    /\ last' = Step("stopScanTimer", 0, "none", "", {"stopScanning"}, 0)
    /\ UNCHANGED <<inited, adapterVars, facadeVars, peripheralVars, managerVars, driverScanning, connVars, gattVars, admitted, notifPhase>>

\* The driver reports the oldest scan request: 'scanStart' or 'scanStop'
\* (listeners of lines 51-52, present once init() has run).
driverScanEvent ==
    /\ scanReqs # <<>>
    /\ Head(scanReqs) = "start" => nobleState = "poweredOn"
    /\ scanReqs' = Tail(scanReqs)
    /\ driverScanning' = (Head(scanReqs) = "start")
    /\ scanning' = IF inited THEN Head(scanReqs) = "start" ELSE scanning
    /\ last' = Step(IF Head(scanReqs) = "start" THEN "scanStart" ELSE "scanStop", 0,
                    IF Head(scanReqs) = "start" THEN "ok" ELSE "none", "", {}, 0)
    /\ UNCHANGED <<inited, adapterVars, facadeVars, peripheralVars, discoveredDevices, allowDuplicates, deviceNameFilter,
                   deviceNamePrefixFilter, timers, connVars, gattVars, admitted, notifPhase>>

\* getPeripheralInternal(peripheral), lines 254-273: a copy of the driver's
\* peripheral, taken when the scan result is emitted.
getPeripheralInternal(id) ==
    [state |-> periph[id],
     services |-> IF IsNull(periphServices[id]) THEN <<>>
                  ELSE Val(periphServices[id]).services]

\* onDiscoverPeripheral(peripheral): the driver's 'discover' event (line 53).
\* The facade's 'scanResult' listener, when there is one, stores the copy
\* (part_001 lines 453-457 and 467-471).
onDiscoverPeripheral(id, name) ==
    /\ inited
    /\ driverScanning
    /\ admitted[id] < MaxAdmit
    /\ LET outcome == discoverOutcome(id, name) IN
       /\ discoveredDevices' =
            IF outcome = "admitted"
            THEN (id :> [servicesAndCharacteristics |-> None]) @@ discoveredDevices
            ELSE discoveredDevices
       /\ admitted' = IF outcome = "admitted"
                      THEN [admitted EXCEPT ![id] = @ + 1] ELSE admitted
       /\ notifPhase' = IF outcome = "admitted"
                        THEN [k \in CharKeys |-> IF k[1] = id THEN 0 ELSE notifPhase[k]]
                        ELSE notifPhase
       /\ deviceMap' =
            IF outcome = "admitted" /\ scanResultListener # "none"
            THEN (id :> getPeripheralInternal(id)) @@ deviceMap
            ELSE deviceMap
       /\ requestOpen' =
            IF outcome = "admitted" /\ scanResultListener = "requestDevice"
            THEN FALSE ELSE requestOpen
       /\ last' = Step("discover", id, outcome,
                       IF outcome = "throws" THEN TypeError ELSE "",
                       {}, IF outcome = "admitted" THEN 1 ELSE 0)
    /\ UNCHANGED <<inited, adapterVars, scanResultListener, requestsLost, channelListeners,
                   peripheralVars, scanning, allowDuplicates, deviceNameFilter,
                   deviceNamePrefixFilter, timers, scanDriverVars, connVars, gattVars>>

----------------------------------------------------------------------------
(* DeviceManager: connections *)

\* connect with the timeout timer started before the registry lookup.
connectNotFound_TimerFirst(id) ==
    /\ BagCardinality(timers) < MaxTimers
    /\ timers' = timers (+) SetToBag({ConnectTimer(id)})
    /\ last' = Step("connect", id, DeviceNotFound, "", {}, 0)
    /\ UNCHANGED <<inited, adapterVars, requestVars, peripheralVars, managerVars, scanDriverVars, connVars, gattVars, admitted, notifPhase>>

\* connect(peripheralDef), lines 129-132: the id is not in the registry
connectNotFound(id) ==
    /\ last' = Step("connect", id, DeviceNotFound, "", {}, 0)
    /\ UNCHANGED <<inited, adapterVars, requestVars, peripheralVars, managerVars, timers, scanDriverVars, connVars, gattVars,
                   admitted, notifPhase>>

\* connect as it would be if it added its 'disconnect' listener without removing
\* the earlier ones.
connectFound_KeepListeners(id) ==
    /\ timers' = timers (+) SetToBag({ConnectTimer(id)})
    /\ discListeners' = [discListeners EXCEPT ![id] = IF @ < MaxListeners THEN @ + 1 ELSE @]
    /\ IF periph[id] = "connected"
       THEN /\ last' = Step("connect", id, DriverError, "", {"on", "connectAsync"}, 0)
            /\ UNCHANGED <<periph, awaitConn>>
       ELSE /\ periph' = [periph EXCEPT ![id] = "connecting"]
            /\ awaitConn' = [awaitConn EXCEPT ![id] = @ + 1]
            /\ last' = Step("connect", id, "pending", "", {"on", "connectAsync"}, 0)
    /\ UNCHANGED <<inited, adapterVars, requestVars, peripheralVars, managerVars, scanDriverVars,
                   awaitDisc, gattVars, admitted, notifPhase>>

\* connect(peripheralDef), lines 133-142: the timer, the 'disconnect' listener and
\* the driver connect, up to the first await
connectFound(id) ==
    /\ timers' = timers (+) SetToBag({ConnectTimer(id)})
    /\ discListeners' = [discListeners EXCEPT ![id] = 1]
    /\ IF periph[id] = "connected"
       THEN \* connectAsync rejects at once: the peripheral is already connected
            /\ last' = Step("connect", id, DriverError, "",
                            {"removeAllListeners", "on", "connectAsync"}, 0)
            /\ UNCHANGED <<periph, awaitConn>>
       ELSE /\ periph' = [periph EXCEPT ![id] = "connecting"]
            /\ awaitConn' = [awaitConn EXCEPT ![id] = @ + 1]
            /\ last' = Step("connect", id, "pending", "",
                            {"removeAllListeners", "on", "connectAsync"}, 0)
    /\ UNCHANGED <<inited, adapterVars, requestVars, peripheralVars, managerVars, scanDriverVars, awaitDisc, gattVars,
                   admitted, notifPhase>>

\* connect(peripheralDef), lines 128-142
connect(id) ==
    IF ~Has(id) THEN connectNotFound(id) ELSE connectFound(id)

\* connect(peripheralDef) while fewer than `calls` connects of the peripheral
\* are unresolved and fewer than `pending` timers are waiting.
connectWithin(id, calls, pending) ==
    /\ Has(id) => /\ awaitConn[id] + awaitDisc[id] < calls
                  /\ BagCardinality(timers) < pending
    /\ connect(id)

\* The callback of lines 134-137: cancelConnect, then a throw inside the callback
connectTimeoutTimer(id) ==
    /\ BagIn(ConnectTimer(id), timers)
    /\ timers' = timers (-) SetToBag({ConnectTimer(id)})
    /\ last' = Step("connectTimeout", id, "none", ConnectionTimeout, {"cancelConnect"}, 0)
    /\ UNCHANGED <<inited, adapterVars, facadeVars, peripheralVars, managerVars, scanDriverVars, connVars, gattVars, admitted, notifPhase>>

\* The driver reports the connection: every call suspended at line 142 resumes
\* and asks for the discovery of line 143.
driverConnected(id) ==
    /\ periph[id] = "connecting" \/ awaitConn[id] > 0
    /\ periph' = [periph EXCEPT ![id] = "connected"]
    /\ awaitDisc' = [awaitDisc EXCEPT ![id] = @ + awaitConn[id]]
    /\ awaitConn' = [awaitConn EXCEPT ![id] = 0]
    /\ last' = Step("connected", id, IF awaitConn[id] > 0 THEN "pending" ELSE "none", "",
                    IF awaitConn[id] > 0 THEN {"discoverAllServicesAndCharacteristicsAsync"}
                    ELSE {}, 0)
    /\ UNCHANGED <<inited, adapterVars, facadeVars, peripheralVars, managerVars, timers, scanDriverVars, discListeners, gattVars,
                   admitted, notifPhase>>

\* The driver reports that the connection failed (also its answer to cancelConnect):
\* every call suspended at line 142 is rejected with the driver's error.
driverConnectFailed(id) ==
    /\ periph[id] = "connecting" \/ awaitConn[id] > 0
    /\ periph' = [periph EXCEPT ![id] = "error"]
    /\ awaitConn' = [awaitConn EXCEPT ![id] = 0]
    /\ last' = Step("connectFailed", id, IF awaitConn[id] > 0 THEN DriverError ELSE "none",
                    "", {}, 0)
    /\ UNCHANGED <<inited, adapterVars, facadeVars, peripheralVars, managerVars, timers, scanDriverVars, discListeners, awaitDisc,
                   gattVars, admitted, notifPhase>>

\* The discovery answer as it would be handled if connect resolved without
\* storing the tree.
driverDiscovered_NoStore(id, tree) ==
    /\ awaitDisc[id] > 0
    /\ periph[id] = "connected"
    /\ awaitDisc' = [awaitDisc EXCEPT ![id] = @ - 1]
    /\ periphServices' = [periphServices EXCEPT ![id] = Some(tree)]
    /\ last' = Step("discovered", id, "ok", "", {}, 0)
    /\ UNCHANGED <<inited, adapterVars, facadeVars, awaitRssi, managerVars, timers,
                   scanDriverVars, periph, discListeners, awaitConn, gattVars, admitted,
                   notifPhase>>

\* The driver answers a discovery: the call resumes at line 144 and stores the
\* tree; when the registry no longer holds the id the store throws.
driverDiscovered(id, tree) ==
    /\ awaitDisc[id] > 0
    /\ periph[id] = "connected"
    /\ awaitDisc' = [awaitDisc EXCEPT ![id] = @ - 1]
    /\ periphServices' = [periphServices EXCEPT ![id] = Some(tree)]
    /\ IF Has(id)
       THEN /\ discoveredDevices' =
                 [discoveredDevices EXCEPT ![id].servicesAndCharacteristics = Some(tree)]
            /\ dataListeners' = [k \in CharKeys |-> IF k[1] = id THEN 0 ELSE dataListeners[k]]
            /\ last' = Step("discovered", id, "ok", "", {}, 0)
       ELSE /\ last' = Step("discovered", id, TypeError, "", {}, 0)
            /\ UNCHANGED <<discoveredDevices, dataListeners>>
    /\ notifPhase' = [k \in CharKeys |-> IF k[1] = id THEN 0 ELSE notifPhase[k]]
    /\ UNCHANGED <<inited, adapterVars, facadeVars, awaitRssi, scanning, allowDuplicates,
                   deviceNameFilter, deviceNamePrefixFilter, timers, scanDriverVars, periph, discListeners, awaitConn, subscribed,
                   admitted>>

\* The driver fails a discovery: the call is rejected with the driver's error.
driverDiscoverFailed(id) ==
    /\ awaitDisc[id] > 0
    /\ awaitDisc' = [awaitDisc EXCEPT ![id] = @ - 1]
    /\ last' = Step("discoverFailed", id, DriverError, "", {}, 0)
    /\ UNCHANGED <<inited, adapterVars, facadeVars, peripheralVars, managerVars, timers, scanDriverVars, periph, discListeners,
                   awaitConn, gattVars, admitted, notifPhase>>

\* disconnect(peripheralDef), lines 147-154
disconnect(id) ==
    IF ~Has(id)
    THEN /\ last' = Step("disconnect", id, DeviceNotFound, "", {}, 0)
         /\ UNCHANGED <<inited, adapterVars, facadeVars, peripheralVars, managerVars, timers, scanDriverVars, connVars, gattVars,
                        admitted, notifPhase>>
    ELSE /\ periph' = [periph EXCEPT ![id] = "disconnecting"]
         /\ last' = Step("disconnect", id, "pending", "", {"disconnectAsync"}, 0)
         /\ UNCHANGED <<inited, adapterVars, facadeVars, peripheralVars, managerVars, timers, scanDriverVars, discListeners, awaitConn,
                        awaitDisc, gattVars, admitted, notifPhase>>

\* The driver's 'disconnect' event, asked for or not: the listener of lines
\* 139-141 emits `disconnected|id`; a pending disconnectAsync resolves.
driverDisconnected(id) ==
    /\ periph[id] \in {"connected", "disconnecting"}
    /\ periph' = [periph EXCEPT ![id] = "disconnected"]
    /\ subscribed' = {k \in subscribed : k[1] # id}
    /\ notifPhase' = [k \in CharKeys |-> IF k[1] = id THEN 0 ELSE notifPhase[k]]
    /\ last' = Step("disconnected", id, IF periph[id] = "disconnecting" THEN "ok" ELSE "none",
                    "", {}, discListeners[id])
    /\ UNCHANGED <<inited, adapterVars, facadeVars, peripheralVars, managerVars, timers, scanDriverVars, discListeners, awaitConn,
                   awaitDisc, dataListeners, admitted>>

----------------------------------------------------------------------------
(* DeviceManager: GATT operations *)

\* History of the start/stop calls made on a characteristic a caller may operate
\* on: 1 after start, 2 after start-stop, 3 after start-stop-start.
PhaseAfter(op, id, service, characteristic) ==
    LET k == <<id, service, characteristic>> IN
    IF ~Operable(id, service, characteristic) THEN notifPhase
    ELSE IF op = "start"
         THEN [notifPhase EXCEPT ![k] = IF @ = 0 THEN 1 ELSE IF @ = 2 THEN 3 ELSE @]
         ELSE [notifPhase EXCEPT ![k] = IF @ \in {1, 3} THEN 2 ELSE @]

\* A call that does nothing but resolve the characteristic and hand one request
\* to the driver: readCharacteristic (lines 161-167) and writeCharacteristic
\* (lines 169-181).
gattRequest(op, call, id, service, characteristic) ==
    LET c == getCharacteristic(id, service, characteristic) IN
    /\ last' = IF c.throws THEN Step(op, id, c.error, "", {}, 0)
               ELSE IF ~c.found THEN Step(op, id, CharacteristicNotFound, "", {}, 0)
               ELSE Step(op, id, "pending", "", {call}, 0)
    /\ UNCHANGED <<inited, adapterVars, facadeVars, peripheralVars, managerVars, timers, scanDriverVars, connVars, gattVars,
                   admitted, notifPhase>>

readCharacteristic(id, service, characteristic) ==
    gattRequest("readCharacteristic", "readAsync", id, service, characteristic)

writeCharacteristic(id, service, characteristic, withoutResponse) ==
    gattRequest(IF withoutResponse THEN "writeCharacteristicWithoutResponse"
                ELSE "writeCharacteristic", "writeAsync", id, service, characteristic)

\* startNotifications, lines 183-195: removes the 'notify' listeners, adds a
\* 'data' listener, subscribes.
startNotifications(id, service, characteristic) ==
    LET c == getCharacteristic(id, service, characteristic)
        k == <<id, service, characteristic>> IN
    /\ notifPhase' = PhaseAfter("start", id, service, characteristic)
    /\ IF c.throws \/ ~c.found
       THEN /\ last' = Step("startNotifications", id,
                            IF c.throws THEN c.error ELSE CharacteristicNotFound, "", {}, 0)
            /\ UNCHANGED gattVars
       ELSE /\ dataListeners[k] < MaxListeners
            /\ dataListeners' = [dataListeners EXCEPT ![k] = @ + 1]
            /\ subscribed' = subscribed \cup {k}
            /\ last' = Step("startNotifications", id, "pending", "",
                            {"removeAllListeners", "on", "subscribeAsync"}, 0)
    /\ UNCHANGED <<inited, adapterVars, facadeVars, peripheralVars, managerVars, timers, scanDriverVars, connVars, admitted>>

\* stopNotifications, lines 197-204: removes the 'notify' listeners (the 'data'
\* listener stays), unsubscribes.
stopNotifications(id, service, characteristic) ==
    LET c == getCharacteristic(id, service, characteristic)
        k == <<id, service, characteristic>> IN
    /\ notifPhase' = PhaseAfter("stop", id, service, characteristic)
    /\ IF c.throws \/ ~c.found
       THEN /\ last' = Step("stopNotifications", id,
                            IF c.throws THEN c.error ELSE CharacteristicNotFound, "", {}, 0)
            /\ UNCHANGED subscribed
       ELSE /\ subscribed' = subscribed \ {k}
            /\ last' = Step("stopNotifications", id, "pending", "",
                            {"removeAllListeners", "unsubscribeAsync"}, 0)
    /\ UNCHANGED <<inited, adapterVars, facadeVars, peripheralVars, managerVars, timers, scanDriverVars, connVars, dataListeners,
                   admitted>>

\* The driver's 'data' event of a characteristic of a connected peripheral: each
\* listener of lines 189-193 emits `notification|...` when isNotification is set.
driverData(id, service, characteristic, isNotification) ==
    /\ periph[id] = "connected"
    /\ last' = Step(IF isNotification THEN "notification" ELSE "data", id, "none", "", {},
                    IF isNotification THEN dataListeners[<<id, service, characteristic>>]
                    ELSE 0)
    /\ UNCHANGED <<inited, adapterVars, facadeVars, peripheralVars, managerVars, timers, scanDriverVars, connVars, gattVars,
                   admitted, notifPhase>>

----------------------------------------------------------------------------
(* DeviceManager: adapter state *)

\* The error the 'stateChange' listener keeps for a state, lines 60-76
stateError(state) ==
    CASE state = "poweredOff" -> PoweredOff
      [] state = "unauthorized" -> PermissionDenied
      [] state = "unsupported" -> Unsupported
      [] OTHER -> ""

\* isInitialized as it would be if only poweredOff counted as not enabled.
isInitialized_UnlessOff(state) ==
    state # "poweredOff"

\* isInitialized, the switch of lines 59-76: set for poweredOn only.  It decides
\* how the promise of init() settles and what emitState passes on (line 85).
isInitialized(state) ==
    state = "poweredOn"

\* The 'stateChange' listener as it would be without the callbackCalled guard
\* of line 78: every state change settles the promise of init().
driverStateChange_SettlesAgain(state) ==
    /\ state # nobleState
    /\ nobleState' = state
    /\ IF inited
       THEN /\ state = "poweredOff" => Len(scanReqs) < MaxPending
            /\ scanReqs' = IF state = "poweredOff" THEN Append(scanReqs, "stop") ELSE scanReqs
            /\ callbackCalled' = TRUE
            /\ last' = Step("stateChange", 0,
                            IF isInitialized(state) THEN "ok" ELSE "rejected",
                            IF isInitialized(state) THEN "" ELSE stateError(state),
                            IF state = "poweredOff" THEN {"stopScanning"} ELSE {},
                            IF stateReceiver THEN 1 ELSE 0)
            /\ lastEnabled' = IF stateReceiver THEN Some(isInitialized(state))
                              ELSE lastEnabled
       ELSE /\ last' = Step("stateChange", 0, "none", "", {}, 0)
            /\ UNCHANGED <<scanReqs, callbackCalled, lastEnabled>>
    /\ UNCHANGED <<inited, managerVars, timers, driverScanning, connVars, gattVars,
                   stateReceiver, facadeVars, peripheralVars, admitted, notifPhase>>

\* The driver's 'stateChange' event.  Once init() has run, the listener of lines
\* 58-87 stops the scan on poweredOff, settles the promise of init() when it is
\* still open, and tells the state receiver.
driverStateChange(state) ==
    /\ state # nobleState
    /\ nobleState' = state
    /\ IF inited
       THEN /\ state = "poweredOff" => Len(scanReqs) < MaxPending
            /\ scanReqs' = IF state = "poweredOff" THEN Append(scanReqs, "stop") ELSE scanReqs
            /\ callbackCalled' = TRUE
            /\ last' = Step("stateChange", 0,
                            IF callbackCalled THEN "none"
                            ELSE IF isInitialized(state) THEN "ok" ELSE "rejected",
                            IF callbackCalled \/ isInitialized(state) THEN "" ELSE stateError(state),
                            IF state = "poweredOff" THEN {"stopScanning"} ELSE {},
                            IF stateReceiver THEN 1 ELSE 0)
            /\ lastEnabled' = IF stateReceiver THEN Some(isInitialized(state))
                              ELSE lastEnabled
       ELSE /\ last' = Step("stateChange", 0, "none", "", {}, 0)
            /\ UNCHANGED <<scanReqs, callbackCalled, lastEnabled>>
    /\ UNCHANGED <<inited, managerVars, timers, driverScanning, connVars, gattVars,
                   stateReceiver, facadeVars, peripheralVars, admitted, notifPhase>>

\* The driver refuses a scan start while the adapter is not powered on:
\* startScanningAsync rejects.
driverScanRejected ==
    /\ scanReqs # <<>>
    /\ Head(scanReqs) = "start"
    /\ nobleState # "poweredOn"
    /\ scanReqs' = Tail(scanReqs)
    /\ last' = Step("scanRejected", 0, DriverError, "", {}, 0)
    /\ UNCHANGED <<inited, adapterVars, facadeVars, peripheralVars, managerVars, timers,
                   driverScanning, connVars, gattVars, admitted, notifPhase>>

\* registerStateReceiver(receiver), lines 95-97
registerStateReceiver ==
    /\ stateReceiver' = TRUE
    /\ last' = Step("registerStateReceiver", 0, "ok", "", {}, 0)
    /\ UNCHANGED <<inited, managerVars, timers, scanDriverVars, connVars, gattVars,
                   nobleState, callbackCalled, lastEnabled, facadeVars, peripheralVars, admitted,
                   notifPhase>>

\* unregisterStateReceiver(), lines 99-101
unregisterStateReceiver ==
    /\ stateReceiver' = FALSE
    /\ last' = Step("unregisterStateReceiver", 0, "ok", "", {}, 0)
    /\ UNCHANGED <<inited, managerVars, timers, scanDriverVars, connVars, gattVars,
                   nobleState, callbackCalled, lastEnabled, facadeVars, peripheralVars, admitted,
                   notifPhase>>

----------------------------------------------------------------------------
(* DeviceManager: RSSI *)

\* readRssi(peripheralDef), lines 206-212, up to the await
readRssi(id) ==
    IF ~Has(id)
    THEN /\ last' = Step("readRssi", id, DeviceNotFound, "", {}, 0)
         /\ UNCHANGED <<inited, adapterVars, facadeVars, peripheralVars, managerVars, timers,
                        scanDriverVars, connVars, gattVars, admitted, notifPhase>>
    ELSE /\ awaitRssi' = [awaitRssi EXCEPT ![id] = @ + 1]
         /\ last' = Step("readRssi", id, "pending", "", {"updateRssiAsync"}, 0)
         /\ UNCHANGED <<inited, adapterVars, facadeVars, periphServices, managerVars, timers,
                        scanDriverVars, connVars, gattVars, admitted, notifPhase>>

\* The driver answers an RSSI query: the call resumes at line 213 and emits
\* `readRssi|id`.
driverRssi(id) ==
    /\ awaitRssi[id] > 0
    /\ awaitRssi' = [awaitRssi EXCEPT ![id] = @ - 1]
    /\ last' = Step("rssi", id, "ok", "", {}, 1)
    /\ UNCHANGED <<inited, adapterVars, facadeVars, periphServices, managerVars, timers,
                   scanDriverVars, connVars, gattVars, admitted, notifPhase>>

\* The driver fails an RSSI query: the call is rejected with the driver's error.
driverRssiFailed(id) ==
    /\ awaitRssi[id] > 0
    /\ awaitRssi' = [awaitRssi EXCEPT ![id] = @ - 1]
    /\ last' = Step("rssiFailed", id, DriverError, "", {}, 0)
    /\ UNCHANGED <<inited, adapterVars, facadeVars, periphServices, managerVars, timers,
                   scanDriverVars, connVars, gattVars, admitted, notifPhase>>

----------------------------------------------------------------------------
(* BluetoothLe: the facade *)

\* getDevice(options, checkConnection), part_001 lines 591-605: the error it
\* throws, "" when it returns the device.
getDevice(id, checkConnection) ==
    IF id \notin DOMAIN deviceMap THEN FacadeDeviceNotFound
    ELSE IF checkConnection /\ deviceMap[id].state # "connected" THEN FacadeNotConnected
    ELSE ""

\* removeAllListeners('scanResult'), part_001 lines 453 and 467: the listener
\* removed is the only holder of the resolve of the requestDevice promise it
\* belongs to; a promise still open at that moment can never settle.
LostAfterRemoval ==
    IF requestOpen /\ requestsLost < MaxLost THEN requestsLost + 1 ELSE requestsLost

\* requestLEScan(options), part_001 lines 463-474
requestLEScan(name, namePrefix, dup) ==
    /\ scanResultListener' = "requestLEScan"
    /\ requestOpen' = FALSE
    /\ requestsLost' = LostAfterRemoval
    /\ UNCHANGED <<deviceMap, channelListeners>>
    /\ startScanning(name, namePrefix, dup, None)

\* requestDevice(options), part_001 lines 448-461: the promise resolves at the
\* first scan result its listener receives (line 457).
requestDevice(name, namePrefix) ==
    /\ scanResultListener' = "requestDevice"
    /\ requestOpen' = TRUE
    /\ requestsLost' = LostAfterRemoval
    /\ UNCHANGED <<deviceMap, channelListeners>>
    /\ startScanning(name, namePrefix, FALSE, Some(requestDeviceDuration))

\* What getServices(options) returns for a device of the map, part_001 lines
\* 509-533: the services of the stored copy.
servicesOf(id) ==
    deviceMap[id].services

\* getServices(options), part_001 lines 509-533
getServices(id) ==
    /\ last' = Step("getServices", id,
                    IF getDevice(id, FALSE) = "" THEN "ok" ELSE getDevice(id, FALSE),
                    "", {}, 0)
    /\ UNCHANGED <<inited, adapterVars, facadeVars, peripheralVars, managerVars, timers,
                   scanDriverVars, connVars, gattVars, admitted, notifPhase>>

\* BluetoothLe.readRssi(options), part_001 lines 535-547
BluetoothLe_readRssi(id) ==
    IF getDevice(id, TRUE) # ""
    THEN /\ last' = Step("BluetoothLe.readRssi", id, getDevice(id, TRUE), "", {}, 0)
         /\ UNCHANGED <<inited, adapterVars, facadeVars, peripheralVars, managerVars, timers,
                        scanDriverVars, connVars, gattVars, admitted, notifPhase>>
    ELSE readRssi(id)

\* BluetoothLe.connect(options), part_001 lines 488-494
BluetoothLe_connect(id) ==
    IF getDevice(id, FALSE) # ""
    THEN /\ last' = Step("BluetoothLe.connect", id, getDevice(id, FALSE), "", {}, 0)
         /\ UNCHANGED <<inited, adapterVars, facadeVars, peripheralVars, managerVars, timers,
                        scanDriverVars, connVars, gattVars, admitted, notifPhase>>
    ELSE /\ channelListeners' = [channelListeners EXCEPT ![id] = 1]
         /\ connect(id)

\* How many times the application is told of one driver 'disconnect' event:
\* each listener of the peripheral (device-manager.ts lines 139-141) emits
\* `disconnected|id` once, and each facade listener of that channel (part_001
\* line 492) passes it on.
disconnectedDeliveries(id) ==
    discListeners[id] * channelListeners[id]

----------------------------------------------------------------------------
(* The system *)

Next ==
    \/ init
    \/ \E f \in ScanFilters, scanDuration \in ScanDurations :
          /\ startScanning(f.name, f.namePrefix, f.allowDuplicates, scanDuration)
          /\ UNCHANGED facadeVars
    \/ Len(scanReqs) < MaxPending /\ stopScan
    \/ \E d \in {Val(o) : o \in ScanDurations \ {None}} : stopScanTimer(d)
    \/ driverScanEvent
    \/ \E id \in NearIds, name \in LocalNames : onDiscoverPeripheral(id, name)
    \/ \E id \in ConnIds :
          connectWithin(id, MaxCalls, MaxTimers) /\ UNCHANGED channelListeners
    \/ \E id \in ConnIds : connectTimeoutTimer(id)
    \/ \E id \in ConnIds : driverConnected(id)
    \/ \E id \in ConnIds : driverConnectFailed(id)
    \/ \E id \in ConnIds, tree \in Trees : driverDiscovered(id, tree)
    \/ \E id \in ConnIds : driverDiscoverFailed(id)
    \/ \E id \in ConnIds : disconnect(id)
    \/ \E id \in ConnIds : driverDisconnected(id)
    \/ \E id \in ConnIds, service \in Services, characteristic \in Characteristics :
          \/ readCharacteristic(id, service, characteristic)
          \/ \E withoutResponse \in BOOLEAN :
                writeCharacteristic(id, service, characteristic, withoutResponse)
          \/ startNotifications(id, service, characteristic)
          \/ stopNotifications(id, service, characteristic)
          \/ \E isNotification \in BOOLEAN :
                driverData(id, service, characteristic, isNotification)

Spec == Init /\ [][Next]_vars

----------------------------------------------------------------------------
(* One timed scan at a time, nobody else stopping it: the application starts a
   scan with a duration when no scan and no timer is left, every peripheral in
   range advertises, the timer and the driver run. *)

NextTimedScan ==
    \/ init
    \/ \E dup \in BOOLEAN :
          /\ ~scanning /\ scanReqs = <<>> /\ timers = EmptyBag
          /\ startScanning(None, None, dup, Some(ScanDuration))
          /\ UNCHANGED facadeVars
    \/ stopScanTimer(ScanDuration)
    \/ driverScanEvent
    \/ \E id \in Ids, name \in LocalNames : onDiscoverPeripheral(id, name)

\* Timers expire and the driver reports what it was asked.
SpecTimedScan ==
    Init /\ [][NextTimedScan]_vars
         /\ WF_vars(stopScanTimer(ScanDuration)) /\ WF_vars(driverScanEvent)

----------------------------------------------------------------------------
(* The adapter changes state while the application scans. *)

NextAdapter ==
    \/ init
    \/ \E state \in AdapterStates : driverStateChange(state)
    \/ registerStateReceiver
    \/ unregisterStateReceiver
    \/ \E dup \in BOOLEAN : requestLEScan(None, None, dup)
    \/ Len(scanReqs) < MaxPending /\ stopScan
    \/ driverScanEvent
    \/ driverScanRejected
    \/ \E id \in NearIds, name \in LocalNames : onDiscoverPeripheral(id, name)

SpecAdapter == Init /\ [][NextAdapter]_vars

----------------------------------------------------------------------------
(* Several connects of one peripheral at a time, after a plain scan. *)

NextConnect ==
    \/ init
    \/ \E dup \in BOOLEAN : startScanning(None, None, dup, None) /\ UNCHANGED facadeVars
    \/ driverScanEvent
    \/ \E id \in ConnIds, name \in LocalNames : onDiscoverPeripheral(id, name)
    \/ \E id \in ConnIds :
          connectWithin(id, MaxConnects, MaxConnects) /\ UNCHANGED channelListeners
    \/ \E id \in ConnIds : connectTimeoutTimer(id)
    \/ \E id \in ConnIds : driverConnected(id)
    \/ \E id \in ConnIds : driverConnectFailed(id)
    \/ \E id \in ConnIds, tree \in Trees : driverDiscovered(id, tree)
    \/ \E id \in ConnIds : driverDiscoverFailed(id)
    \/ \E id \in ConnIds : disconnect(id)
    \/ \E id \in ConnIds : driverDisconnected(id)

SpecConnect == Init /\ [][NextConnect]_vars

----------------------------------------------------------------------------
(* The application works through the facade. *)

NextFacade ==
    \/ init
    \/ requestLEScan(None, None, FALSE)
    \/ requestDevice(None, None)
    \/ stopScanTimer(requestDeviceDuration)
    \/ driverScanEvent
    \/ \E id \in ConnIds : onDiscoverPeripheral(id, None)
    \/ \E id \in ConnIds :
          /\ Has(id) /\ getDevice(id, FALSE) = ""
                => awaitConn[id] + awaitDisc[id] < MaxCalls /\ BagCardinality(timers) < MaxTimers
          /\ BluetoothLe_connect(id)
    \/ \E id \in ConnIds : connectTimeoutTimer(id)
    \/ \E id \in ConnIds : driverConnected(id)
    \/ \E id \in ConnIds : driverConnectFailed(id)
    \/ \E id \in ConnIds, tree \in Trees : driverDiscovered(id, tree)
    \/ \E id \in ConnIds : disconnect(id)
    \/ \E id \in ConnIds : driverDisconnected(id)
    \/ \E id \in ConnIds : getServices(id)
    \/ \E id \in ConnIds : BluetoothLe_readRssi(id)
    \/ \E id \in ConnIds : awaitRssi[id] < MaxCalls /\ readRssi(id)
    \/ \E id \in ConnIds : driverRssi(id)
    \/ \E id \in ConnIds : driverRssiFailed(id)

SpecFacade == Init /\ [][NextFacade]_vars

----------------------------------------------------------------------------
(* The application stops the scan more often than it starts one: up to MaxStops
   stop requests wait for the driver at a time. *)

NextStop ==
    \/ init
    \/ \E dup \in BOOLEAN : startScanning(None, None, dup, None) /\ UNCHANGED facadeVars
    \/ Len(scanReqs) < MaxStops /\ stopScan
    \/ driverScanEvent
    \/ \E id \in NearIds, name \in LocalNames : onDiscoverPeripheral(id, name)

SpecStop == Init /\ [][NextStop]_vars

----------------------------------------------------------------------------
(* After init, timed scans that report no duplicates and untimed scans that do:
   in a session with allowDuplicates set, a stop timer that is still waiting was
   registered by an earlier session, which has been stopped since. *)

NextSessions ==
    \/ init
    \/ inited /\ startScanning(None, None, FALSE, Some(ScanDuration)) /\ UNCHANGED facadeVars
    \/ inited /\ startScanning(None, None, TRUE, None) /\ UNCHANGED facadeVars
    \/ Len(scanReqs) < MaxPending /\ stopScan
    \/ stopScanTimer(ScanDuration)
    \/ driverScanEvent
    \/ \E id \in NearIds, name \in LocalNames : onDiscoverPeripheral(id, name)

SpecSessions == Init /\ [][NextSessions]_vars

----------------------------------------------------------------------------
(* Several connects of one peripheral at a time, made through the facade. *)

NextChannel ==
    \/ init
    \/ requestLEScan(None, None, FALSE)
    \/ driverScanEvent
    \/ \E id \in ConnIds, name \in LocalNames : onDiscoverPeripheral(id, name)
    \/ \E id \in ConnIds :
          /\ Has(id) /\ getDevice(id, FALSE) = ""
                => /\ awaitConn[id] + awaitDisc[id] < MaxConnects
                   /\ BagCardinality(timers) < MaxConnects
          /\ BluetoothLe_connect(id)
    \/ \E id \in ConnIds : connectTimeoutTimer(id)
    \/ \E id \in ConnIds : driverConnected(id)
    \/ \E id \in ConnIds : driverConnectFailed(id)
    \/ \E id \in ConnIds, tree \in Trees : driverDiscovered(id, tree)
    \/ \E id \in ConnIds : driverDiscoverFailed(id)
    \/ \E id \in ConnIds : disconnect(id)
    \/ \E id \in ConnIds : driverDisconnected(id)

SpecChannel == Init /\ [][NextChannel]_vars

----------------------------------------------------------------------------
(* Steps, as the properties below name them *)

GattCall(id, service, characteristic) ==
    \/ readCharacteristic(id, service, characteristic)
    \/ \E withoutResponse \in BOOLEAN :
          writeCharacteristic(id, service, characteristic, withoutResponse)
    \/ startNotifications(id, service, characteristic)
    \/ stopNotifications(id, service, characteristic)

HasTree(id) ==
    Has(id) /\ ~IsNull(discoveredDevices[id].servicesAndCharacteristics)

----------------------------------------------------------------------------
(* Properties *)

\* C1: in a scan session started with allowDuplicates = false, every device id
\* has produced at most one admitted discovery ('scanResult' emission) since
\* the registry was last reset.
C1_AtMostOneAdmission ==
    ~allowDuplicates => \A id \in Ids : admitted[id] <= 1

\* C1 witness: in such a session a repeated advertisement of an admitted device
\* has just been suppressed.
C1_Witness ==
    /\ ~allowDuplicates
    /\ last.op = "discover" /\ last.res = "duplicate"
    /\ admitted[last.id] = 1

\* C2: connect(id) for an id absent from the registry fails with 'Device not
\* found.', makes no driver call (no connect, no cancelConnect, no 'disconnect'
\* listener) and starts no timer.
C2_ConnectUnknown ==
    [][\A id \in ConnIds :
        (last'.op = "connect" /\ last'.id = id /\ ~Has(id))
        => /\ last'.res = DeviceNotFound
           /\ last'.drv = {}
           /\ timers' = timers
           /\ UNCHANGED <<periph, discListeners, awaitConn, awaitDisc>>]_vars

\* C2 witness: a connect on an id the registry does not hold has just failed.
C2_Witness ==
    /\ last.op = "connect" /\ last.res = DeviceNotFound
    /\ last.id \in ConnIds /\ ~Has(last.id)

\* C3: when the timeout of a connect whose driver request is still unanswered
\* expires, the driver attempt is cancelled, the caller's connect fails with
\* 'Connection timeout.', no call stays pending and the peripheral is
\* disconnected.
C3_TimeoutFailsCaller ==
    [][\A id \in ConnIds :
        (last'.op = "connectTimeout" /\ last'.id = id /\ awaitConn[id] > 0)
        => /\ "cancelConnect" \in last'.drv
           /\ last'.res = ConnectionTimeout
           /\ awaitConn'[id] = 0
           /\ periph'[id] = "disconnected"]_vars

\* C4: on a connected peripheral whose tree has been discovered, a read, write,
\* startNotifications or stopNotifications naming a characteristic that is not
\* in the tree fails with 'Characteristic not found.' and makes no driver call.
C4_UnknownCharacteristic ==
    [][\A id \in ConnIds, service \in Services, characteristic \in Characteristics :
        (/\ periph[id] = "connected" /\ HasTree(id)
         /\ ~InTree(id, service, characteristic)
         /\ GattCall(id, service, characteristic))
        => last'.res = CharacteristicNotFound /\ last'.drv = {}]_vars

\* C5: a read of a characteristic of the discovered tree made right after
\* disconnect on that peripheral fails with 'Device not connected.'.
C5_ReadAfterDisconnect ==
    [][\A id \in ConnIds, service \in Services, characteristic \in Characteristics :
        (/\ last.op = "disconnect" /\ last.id = id /\ last.res = "pending"
         /\ InTree(id, service, characteristic)
         /\ readCharacteristic(id, service, characteristic))
        => last'.res = NotConnected]_vars

\* C6: the characteristic lookup of read, write, startNotifications and
\* stopNotifications reports 'Device not found.' exactly when the id is absent
\* from the registry, and for a connected peripheral whose tree holds the
\* characteristic the request reaches the driver.
C6_DeviceNotFoundIffAbsent ==
    [][\A id \in ConnIds, service \in Services, characteristic \in Characteristics :
        GattCall(id, service, characteristic)
        => /\ (last'.res = DeviceNotFound) <=> ~Has(id)
           /\ Operable(id, service, characteristic) => last'.drv # {}]_vars

\* C7: after startNotifications, stopNotifications and startNotifications again
\* on a characteristic, every notification the driver delivers for it is
\* emitted exactly once.
C7_ResubscribeEmitsOnce ==
    [][\A id \in ConnIds, service \in Services, characteristic \in Characteristics :
        (/\ notifPhase[<<id, service, characteristic>>] = 3
         /\ Operable(id, service, characteristic)
         /\ driverData(id, service, characteristic, TRUE))
        => last'.emits = 1]_vars

\* C9: with the name prefix "Foo", an advertisement named "FooBar" that no other
\* rule rejects is admitted, and one named "Bar" or without a name is rejected:
\* the handler returns without an emission and without a registry change.
C9_PrefixFilter ==
    [][\A id \in Ids, name \in LocalNames :
        (deviceNamePrefixFilter = Some(Foo) /\ onDiscoverPeripheral(id, name))
        => /\ (/\ name = Some(FooBar) /\ periph[id] # "connected"
               /\ (allowDuplicates \/ ~Has(id)) /\ passesNameFilter(name))
              => last'.res = "admitted" /\ last'.emits = 1 /\ id \in DOMAIN discoveredDevices'
           /\ name \in {Some(Bar), None}
              => /\ last'.res \in {"filtered", "duplicate", "ignored"}
                 /\ last'.uncaught = ""
                 /\ last'.emits = 0
                 /\ discoveredDevices' = discoveredDevices]_vars

\* C10: with an exact name set, an advertisement whose name differs from it or
\* is missing is rejected (no emission, no registry change), and one whose name
\* equals it is admitted unless another rule rejects it.
C10_ExactNameFilter ==
    [][\A id \in Ids, name \in LocalNames :
        (~IsNull(deviceNameFilter) /\ onDiscoverPeripheral(id, name))
        => /\ name # deviceNameFilter
              => /\ last'.res \in {"filtered", "duplicate", "ignored"}
                 /\ last'.uncaught = ""
                 /\ last'.emits = 0
                 /\ discoveredDevices' = discoveredDevices
           /\ (/\ name = deviceNameFilter /\ periph[id] # "connected"
               /\ (allowDuplicates \/ ~Has(id))
               /\ passesNamePrefixFilter(name) = "true")
              => last'.res = "admitted" /\ last'.emits = 1 /\ id \in DOMAIN discoveredDevices']_vars

\* C10 witness: under an exact-name filter alone, an advertisement of a new
\* device has just been rejected by it.
C10_Witness ==
    /\ deviceNameFilter = Some(FooBar) /\ IsNull(deviceNamePrefixFilter)
    /\ last.op = "discover" /\ last.res = "filtered"
    /\ ~Has(last.id)

\* C11: in a scan started with a duration and no filter, the advertisement of
\* each device id not yet heard in the session emits exactly one discovery (3
\* ids advertising once each give exactly 3), and the scan is then stopped
\* automatically: the timer's expiry hands the driver a stop request, and a
\* running scan whose timer is pending is eventually stopped.
C11_TimedScan ==
    /\ [][\A id \in Ids, name \in LocalNames :
            (/\ IsNull(deviceNameFilter) /\ IsNull(deviceNamePrefixFilter)
             /\ ~Has(id)
             /\ onDiscoverPeripheral(id, name))
            => /\ last'.emits = 1
               /\ admitted' = [admitted EXCEPT ![id] = @ + 1]
               /\ id \in DOMAIN discoveredDevices']_vars
    /\ [][last'.op = "stopScanTimer"
            => "stopScanning" \in last'.drv /\ scanReqs' = Append(scanReqs, "stop")]_vars
    /\ (BagIn(StopTimer(ScanDuration), timers) /\ driverScanning) ~> ~driverScanning

\* C11 witness: the three devices have each been admitted once and the scan has
\* been stopped by its timer.
C11_Witness ==
    /\ \A id \in Ids : admitted[id] = 1
    /\ ~allowDuplicates
    /\ last.op = "scanStop" /\ ~driverScanning /\ ~scanning
    /\ timers = EmptyBag

\* C12: a scan start requested while the adapter is not powered on fails at
\* once with an adapter-unavailable error: the call does not go on as accepted,
\* the registry is not reset and no scan request is handed to the driver.
C12_ScanStartAdapterOff ==
    [][(last'.op = "startScanning" /\ nobleState # "poweredOn")
        => /\ last'.res \notin {"pending", "ok", AlreadyScanning}
           /\ last'.drv = {}
           /\ scanReqs' = scanReqs
           /\ discoveredDevices' = discoveredDevices]_vars

\* C13: a scan start requested while a scan is in progress stops that scan and
\* goes on to start the new one with the new filter, without an error for the
\* caller.
C13_RestartScan ==
    [][\A f \in ScanFilters, scanDuration \in ScanDurations :
        (scanning /\ startScanning(f.name, f.namePrefix, f.allowDuplicates, scanDuration))
        => /\ last'.res \in {"pending", "ok"}
           /\ {"stopScanning", "startScanningAsync"} \subseteq last'.drv
           /\ deviceNameFilter' = f.name
           /\ deviceNamePrefixFilter' = f.namePrefix
           /\ allowDuplicates' = f.allowDuplicates]_vars

\* C14: a connect called for a peripheral whose earlier connect has not yet
\* resolved fails at once (already connecting): it makes no driver connect and
\* starts no timer, so at most one attempt is in flight per peripheral.
C14_AlreadyConnecting ==
    [][\A id \in ConnIds :
        (/\ last'.op = "connect" /\ last'.id = id
         /\ Has(id) /\ awaitConn[id] + awaitDisc[id] > 0)
        => /\ last'.res \notin {"pending", "ok"}
           /\ "connectAsync" \notin last'.drv
           /\ timers' = timers
           /\ awaitConn'[id] + awaitDisc'[id] <= 1]_vars

\* C15: connect resolves successfully only when the driver has connected the
\* peripheral and answered the discovery, and the answer has been stored: the
\* step that resolves it leaves the discovered tree in the registry record, and
\* no earlier step of connect reports success.
C15_ResolveAfterDiscovery ==
    /\ [][\A id \in ConnIds, tree \in Trees :
            (driverDiscovered(id, tree) /\ last'.res = "ok")
            => /\ periph[id] = "connected"
               /\ awaitConn[id] + awaitDisc[id] > 0
               /\ id \in DOMAIN discoveredDevices'
               /\ discoveredDevices'[id].servicesAndCharacteristics = Some(tree)]_vars
    /\ [](last.op \in {"connect", "connected", "connectFailed", "discoverFailed"}
            => last.res # "ok")
    /\ []((last.op = "discovered" /\ last.res = "ok") => HasTree(last.id))

\* C15 witness: a connect has just resolved, with a tree of one service stored.
C15_Witness ==
    /\ last.op = "discovered" /\ last.res = "ok"
    /\ periph[last.id] = "connected"
    /\ HasTree(last.id)
    /\ discoveredDevices[last.id].servicesAndCharacteristics = Some(TreeFull)

\* C16: a registry record holds discovered services only while its peripheral
\* is connected (a disconnect still under way included); once the peripheral
\* is disconnected, asked for or not, the record holds none.
C16_ServicesOnlyWhileConnected ==
    \A id \in ConnIds : HasTree(id) => periph[id] \in {"connected", "disconnecting"}

\* C17: a write on a characteristic of the discovered tree of a connected
\* peripheral is handed to the driver and does not fail; issued without
\* response it resolves on the hand-over, issued with response it stays
\* unresolved until the driver acknowledges it.
C17_WriteResolution ==
    [][\A id \in ConnIds, service \in Services, characteristic \in Characteristics,
         withoutResponse \in BOOLEAN :
        (/\ Operable(id, service, characteristic)
         /\ writeCharacteristic(id, service, characteristic, withoutResponse))
        => /\ "writeAsync" \in last'.drv
           /\ last'.res \in (IF withoutResponse THEN {"ok", "pending"} ELSE {"pending"})]_vars

\* C18: readRssi on a device the facade knows fails with the not-connected
\* error while the peripheral is not connected, and, whenever the peripheral is
\* connected, issues a fresh RSSI query to the driver.
C18_ReadRssi ==
    [][\A id \in ConnIds :
        (id \in DOMAIN deviceMap /\ BluetoothLe_readRssi(id))
        => /\ periph[id] # "connected" => last'.res = FacadeNotConnected /\ last'.drv = {}
           /\ periph[id] = "connected" => /\ "updateRssiAsync" \in last'.drv
                                           /\ last'.res = "pending"]_vars

\* C19: every accepted scan request (requestLEScan, requestDevice) clears the
\* registry; a device id stays out of the registry until a discovery admits it
\* again, and connect on an id that is out of the registry, seen in an earlier
\* session or not, fails with 'Device not found.'.
C19_RegistryResetOnScanStart ==
    /\ [][(last'.op = "startScanning" /\ last'.res = "pending")
            => discoveredDevices' = <<>>]_vars
    /\ [][\A id \in Ids :
            (~Has(id) /\ id \in DOMAIN discoveredDevices')
            => last'.op = "discover" /\ last'.id = id /\ last'.res = "admitted"]_vars
    /\ [][\A id \in ConnIds :
            (last'.op = "connect" /\ last'.id = id /\ ~Has(id))
            => last'.res = DeviceNotFound /\ last'.drv = {}]_vars

\* C19 witness: connect has just failed on a device that the facade was told
\* about in an earlier session and that the registry no longer holds.
C19_Witness ==
    /\ last.op = "connect" /\ last.res = DeviceNotFound
    /\ last.id \in DOMAIN deviceMap
    /\ ~Has(last.id)

\* C20: once connect has resolved for a peripheral (connected, its discovered
\* tree stored), getServices returns the services of that discovered tree.
C20_GetServicesAfterConnect ==
    [][\A id \in ConnIds :
        (HasTree(id) /\ periph[id] = "connected" /\ getServices(id))
        => /\ last'.res = "ok"
           /\ servicesOf(id) = Val(discoveredDevices[id].servicesAndCharacteristics).services]_vars

\* C21: a call that fails with a per-operation error (connect or disconnect of
\* an unknown id, a characteristic lookup that fails, a scan start refused
\* because a scan is in progress) hands nothing to the driver and leaves the
\* registry, the scan filter, the scanning flag and the driver's scan state as
\* they were.
C21_FailedCallChangesNothing ==
    [][(/\ last'.op \in {"connect", "disconnect", "startScanning", "readCharacteristic",
                         "writeCharacteristic", "writeCharacteristicWithoutResponse",
                         "startNotifications", "stopNotifications"}
        /\ last'.res \in {DeviceNotFound, NotConnected, NoCharacteristic, ServiceNotFound,
                          CharacteristicNotFound, AlreadyScanning})
       => /\ UNCHANGED <<managerVars, scanDriverVars>>
          /\ last'.drv = {}]_vars

\* C22: the timeout of a connect fires only while that connect is unresolved:
\* when the timeout callback runs (cancelConnect and the timeout error), the
\* peripheral has at least as many connects awaiting the driver as it has
\* timeout timers waiting.
C22_TimeoutOnlyWhilePending ==
    [][\A id \in Ids :
          connectTimeoutTimer(id) =>
             CopiesIn(ConnectTimer(id), timers) <= awaitConn[id] + awaitDisc[id]]_vars

\* C23: the 'disconnect' listener is in place when the driver connect is
\* issued, and however many connects (at least one) have reached the driver for
\* a peripheral, each driver 'disconnect' event of that peripheral is passed on
\* exactly once by the manager and exactly once by the facade, and it fails no
\* request.
C23_DisconnectDeliveredOnce ==
    [][\A id \in Ids :
          /\ (connect(id) /\ "connectAsync" \in last'.drv)
                => discListeners'[id] = 1 /\ channelListeners'[id] = 1
          /\ (driverDisconnected(id) /\ discListeners[id] >= 1)
                => /\ last'.emits = 1
                   /\ disconnectedDeliveries(id) = 1
                   /\ last'.res \in {"ok", "none"}
                   /\ last'.uncaught = ""]_vars

C23_Witness ==
    /\ last.op = "disconnected"
    /\ last.emits = 1
    /\ disconnectedDeliveries(last.id) = 1
    /\ awaitDisc[last.id] = MaxConnects

\* C24: the scanning flag changes only when the driver reports a scan start or
\* a scan stop (so a startScanning or stopScan call leaves it as it was), and
\* once init has run, each such report sets it to the kind of the report.
C24_ScanningFollowsDriver ==
    [][/\ scanning' # scanning => driverScanEvent
       /\ last'.op \in {"startScanning", "stopScan"} => scanning' = scanning
       /\ (driverScanEvent /\ inited) => scanning' = (last'.op = "scanStart")]_vars

C24_Witness ==
    /\ last.op = "stopScan"
    /\ scanning
    /\ scanReqs = <<"stop">>

\* C25: stopScan always returns without error, whether or not a scan is running
\* and however many times in a row it is called; the call itself leaves the
\* registry, the filter and the scanning flag as they are, and every scan-stop
\* report of the driver leaves the manager not scanning with the registry and
\* the filter untouched, so a second stop ends in the state of the first.
C25_StopScanIdempotent ==
    [][/\ last'.op = "stopScan"
            => last'.res = "ok" /\ last'.uncaught = "" /\ UNCHANGED managerVars
       /\ (last'.op = "scanStop" /\ inited)
            => /\ ~scanning'
               /\ UNCHANGED <<discoveredDevices, allowDuplicates, deviceNameFilter,
                              deviceNamePrefixFilter>>
       /\ (last'.op = "scanStop" /\ inited /\ ~scanning) => UNCHANGED managerVars]_vars

C25_Witness ==
    /\ last.op = "scanStop"
    /\ inited
    /\ ~scanning
    /\ scanReqs = <<"stop">>
    /\ DOMAIN discoveredDevices # {}

\* C26: no requestDevice promise that is still open ever loses its scan-result
\* listener to a later requestDevice or requestLEScan.
C26_RequestKeepsListener ==
    requestsLost = 0

\* C27: whenever the driver completes the discovery that follows a successful
\* driver connect, the connect resolves and the tree is stored in the registry
\* entry, whatever scan operations ran in between.
C27_ConnectSucceeds ==
    [][\A id \in Ids, tree \in Trees :
          driverDiscovered(id, tree) =>
             /\ last'.res = "ok"
             /\ Has(id)'
             /\ discoveredDevices'[id].servicesAndCharacteristics = Some(tree)]_vars

\* C28: the expiry of a stop timer stops only the scan session that registered
\* it.  Where only the sessions without allowDuplicates register a timer: a
\* timer that expires during a session with allowDuplicates asks the driver
\* nothing.
C28_TimerStopsOwnSession ==
    [][(stopScanTimer(ScanDuration) /\ allowDuplicates)
          => scanReqs' = scanReqs /\ "stopScanning" \notin last'.drv]_vars

\* C29: a discover event of a peripheral whose driver state is connected is
\* ignored, with or without allowDuplicates: nothing is emitted, and the
\* registry (the entry of the peripheral and its stored tree included) and the
\* facade's device map stay as they are.
C29_ConnectedDiscoverIgnored ==
    [][\A id \in Ids, name \in LocalNames :
          (periph[id] = "connected" /\ onDiscoverPeripheral(id, name))
             => /\ last'.res = "ignored"
                /\ last'.emits = 0
                /\ UNCHANGED <<discoveredDevices, deviceMap>>]_vars

C29_Witness ==
    /\ last.op = "discover"
    /\ last.res = "ignored"
    /\ allowDuplicates
    /\ periph[last.id] = "connected"
    /\ HasTree(last.id)

\* C30: the promise of init settles exactly once.  The init call resolves it
\* when the adapter is powered on at the call and leaves it open otherwise; the
\* first state change observed while it is open resolves it when the new state
\* is poweredOn and rejects it for any other state; once settled it stays
\* settled, and a state change settles nothing.
C30_InitSettlesOnce ==
    [][/\ init => /\ last'.res = (IF nobleState = "poweredOn" THEN "ok" ELSE "pending")
                  /\ callbackCalled' = (nobleState = "poweredOn")
       /\ \A state \in AdapterStates :
             (driverStateChange(state) /\ inited) =>
                /\ callbackCalled'
                /\ last'.res = (IF callbackCalled THEN "none"
                                ELSE IF state = "poweredOn" THEN "ok" ELSE "rejected")
                /\ callbackCalled => last'.uncaught = ""
       /\ callbackCalled => callbackCalled'
       /\ last'.res \in {"ok", "rejected"} /\ last'.op \in {"init", "stateChange"}
             => ~callbackCalled]_vars

C30_Witness ==
    /\ last.op = "stateChange"
    /\ inited
    /\ last.res = "none"
    /\ nobleState = "poweredOn"

\* C31: once init has run, every adapter state change calls the registered
\* state receiver exactly once, with enabled set exactly when the new state is
\* poweredOn, and calls nobody when no receiver is registered (none ever was,
\* or it was unregistered); a change to poweredOff also hands a stop request to
\* the driver, any other change hands none.
C31_StateReceiver ==
    [][/\ \A state \in AdapterStates :
             (driverStateChange(state) /\ inited) =>
                /\ last'.emits = (IF stateReceiver THEN 1 ELSE 0)
                /\ lastEnabled' = (IF stateReceiver THEN Some(state = "poweredOn")
                                   ELSE lastEnabled)
                /\ ("stopScanning" \in last'.drv) = (state = "poweredOff")
                /\ scanReqs' = (IF state = "poweredOff" THEN Append(scanReqs, "stop")
                                ELSE scanReqs)
       /\ unregisterStateReceiver => ~stateReceiver'
       /\ lastEnabled' # lastEnabled => last'.op = "stateChange" /\ stateReceiver]_vars

C31_Witness ==
    /\ last.op = "stateChange"
    /\ last.emits = 1
    /\ nobleState = "unknown"
    /\ lastEnabled = Some(FALSE)
    /\ inited

====
